---- MODULE Spec2Model ----
(***************************************************************************)
(* Model of rpg/spec.py: the Subpackage / Spec data model (a dict with     *)
(* attribute-style access and runtime type checks), the shared file list   *)
(* with mark_doc, and the write methods that render a document.            *)
(***************************************************************************)
EXTENDS Integers, Sequences, FiniteSets, TLC

\* spec: the root document's mapping; subpackages, changelogs: the lists of
\* the class Spec; files: the list of the class Subpackage; last: the last
\* call and its outcome; out: what that call printed to the sink it was
\* given; assigned: the (section, key) pairs an assignment has stored.
VARIABLES spec, subpackages, files, changelogs, out, last, assigned

vars == <<spec, subpackages, files, changelogs, out, last, assigned>>

(***************************************************************************)
(* Bounds of the model.                                                    *)
(***************************************************************************)
MaxSubpackages == 1
MaxFiles == 2
MaxDirectives == 3
MaxChangelogs == 1

(***************************************************************************)
(* Python values.  kind is the Python type; s holds a str's text, l the    *)
(* elements of a list or the command lines of a Command.                   *)
(***************************************************************************)
Str(t) == [kind |-> "str", s |-> t, l |-> <<>>]
Lst(q) == [kind |-> "list", s |-> "", l |-> q]
Cmd(q) == [kind |-> "Command", s |-> "", l |-> q]
IntVal == [kind |-> "int", s |-> "0", l |-> <<>>]
NoVal == [kind |-> "None", s |-> "", l |-> <<>>]

\* Command(value): no argument gives an empty script, a str one line, a list
\* its lines.
Command(v) ==
    IF v.kind = "str" THEN Cmd(<<v.s>>)
    ELSE IF v.kind = "list" THEN Cmd(v.l)
    ELSE Cmd(<<>>)

RECURSIVE JoinLines(_)
JoinLines(q) ==
    IF q = <<>> THEN ""
    ELSE IF Len(q) = 1 THEN q[1]
    ELSE q[1] \o "\n" \o JoinLines(Tail(q))

\* str(value) for the values a section stores.
StrOf(v) ==
    IF v.kind = "str" THEN v.s
    ELSE IF v.kind = "Command" THEN JoinLines(v.l)
    ELSE v.s

(***************************************************************************)
(* Class attributes of Subpackage.  The string literals of _singles after  *)
(* "Summary" are written without commas, so Python concatenates them into  *)
(* one element.                                                            *)
(***************************************************************************)
_singles ==
    {"Name", "Version", "Release", "SummaryGroupLicenseURLBuildArchBuildRoot"}

_scripts ==
    <<"prep", "build", "pre", "install", "check", "post", "preun", "postun",
      "pretrans", "posttrans", "clean", "changelog">>

_scriptNames == {_scripts[i] : i \in 1..Len(_scripts)}

_appendants == {"Requires", "BuildRequires", "Provides"}

StrKeys ==
    {"Name", "Version", "Release", "Summary", "Group", "License", "URL",
     "Source", "Patch", "BuildArch", "BuildRoot", "Obsoletes", "Conflicts",
     "Vendor", "Packager", "description", "package"}

\* Subpackage.__init__: the mapping every section starts with.
InitTags ==
    [k \in StrKeys \cup _appendants \cup _scriptNames |->
        IF k \in StrKeys THEN Str("")
        ELSE IF k \in _appendants THEN Lst(<<>>)
        ELSE Cmd(<<>>)]

(***************************************************************************)
(* Subpackage.__getattr__ and __setattr__ on a mapping m.  Both return the *)
(* outcome res ("ok" or the exception raised); __getattr__ also the value  *)
(* read, __setattr__ the mapping afterwards.                               *)
(***************************************************************************)
GetAttrWithDefault(m, key) ==
    IF key \in DOMAIN m
    THEN [res |-> "ok", val |-> m[key]]
    ELSE [res |-> "ok", val |-> Str("")]

__getattr__(m, key) ==
    IF key \in DOMAIN m
    THEN [res |-> "ok", val |-> m[key]]
    ELSE [res |-> "AttributeError", val |-> NoVal]

SetAttrStoreFirst(m, key, value) ==
    LET stored == IF key \in _scriptNames /\ value.kind # "Command"
                  THEN Command(value) ELSE value
        m2 == [k \in DOMAIN m \cup {key} |-> IF k = key THEN stored ELSE m[k]]
    IN  IF key \in _singles /\ value.kind # "str"
        THEN [res |-> "TypeError", m |-> m2]
        ELSE IF key \notin _scriptNames /\ value.kind = "Command"
        THEN [res |-> "TypeError", m |-> m2]
        ELSE IF value.kind \notin {"list", "str", "Command"}
        THEN [res |-> "TypeError", m |-> m2]
        ELSE [res |-> "ok", m |-> m2]

__setattr__(m, key, value) ==
    IF key \in _singles /\ value.kind # "str"
    THEN [res |-> "TypeError", m |-> m]
    ELSE IF key \notin _scriptNames /\ value.kind = "Command"
    THEN [res |-> "TypeError", m |-> m]
    ELSE IF value.kind \notin {"list", "str", "Command"}
    THEN [res |-> "TypeError", m |-> m]
    ELSE IF __getattr__(m, key).res # "ok"
    THEN [res |-> "AttributeError", m |-> m]
    ELSE IF key \in _scriptNames
    THEN IF value.kind = "Command"
         THEN [res |-> "ok", m |-> [m EXCEPT ![key] = value]]
         ELSE [res |-> "ok", m |-> [m EXCEPT ![key] = Command(value)]]
    ELSE [res |-> "ok", m |-> [m EXCEPT ![key] = value]]

(***************************************************************************)
(* Sections: 0 is the root document (the Spec object), i >= 1 the i-th     *)
(* element of Spec.subpackages.                                            *)
(***************************************************************************)
Sections == 0..Len(subpackages)

Sect(i) == IF i = 0 THEN spec ELSE subpackages[i]

\* Inputs of the attribute operations.
AttrKeys == {"Name", "Summary", "Requires", "Patch", "build", "Foo"}

Values == {Str("a"), Lst(<<"a", "b">>), Cmd(<<"make">>), IntVal}

NoOp == [op |-> "none", sec |-> 0, key |-> "", val |-> NoVal, res |-> "ok"]

Init ==
    /\ spec = InitTags
    /\ subpackages = <<>>
    /\ files = <<>>
    /\ changelogs = <<>>
    /\ out = <<>>
    /\ last = NoOp
    /\ assigned = {}

\* section.key = value
SetAttr(i, key, value) ==
    LET r == __setattr__(Sect(i), key, value)
    IN  /\ IF i = 0
           THEN spec' = r.m /\ UNCHANGED subpackages
           ELSE subpackages' = [subpackages EXCEPT ![i] = r.m] /\ UNCHANGED spec
        /\ last' = [op |-> "setattr", sec |-> i, key |-> key, val |-> value,
                    res |-> r.res]
        /\ assigned' = IF r.res = "ok" THEN assigned \cup {<<i, key>>}
                       ELSE assigned
        /\ out' = <<>>
        /\ UNCHANGED <<files, changelogs>>

\* section.key
GetAttr(i, key) ==
    LET r == __getattr__(Sect(i), key)
    IN  /\ last' = [op |-> "getattr", sec |-> i, key |-> key, val |-> r.val,
                    res |-> r.res]
        /\ out' = <<>>
        /\ UNCHANGED <<spec, subpackages, files, changelogs, assigned>>

NextAttr ==
    \/ \E i \in Sections, key \in AttrKeys, value \in Values :
          SetAttr(i, key, value)
    \/ \E i \in Sections, key \in AttrKeys \cup {"Group"} : GetAttr(i, key)

SpecAttr == Init /\ [][NextAttr]_vars

(***************************************************************************)
(* The file list.  files is the class attribute Subpackage.files: Spec     *)
(* does not redefine it and __setattr__ refuses the key "files", so        *)
(* self.files is this one list for the root and for every subpackage.  An  *)
(* entry is the tuple (path, tags, attr); attr "None" stands for None.     *)
(***************************************************************************)
FilesOf(i) == files

FileEntry(p, t, a) == [path |-> p, tags |-> t, attr |-> a]

Paths == {"/a", "/b"}

FileInputs ==
    {FileEntry("/a", <<"%config">>, "(644)"), FileEntry("/b", <<>>, "None"),
     FileEntry("/b", <<"%doc">>, "None")}

Positions(fs, file) == {j \in 1..Len(fs) : fs[j].path = file}

Min(S) == CHOOSE x \in S : \A y \in S : x <= y

MarkDocAlwaysAppend(fs, file) ==
    Append(fs, FileEntry(file, <<"%doc">>, "None"))

\* Subpackage.mark_doc on the list fs: the first entry of that path gets
\* "%doc" appended to its tags, and without such an entry a new one is added.
mark_doc(fs, file) ==
    IF Positions(fs, file) # {}
    THEN LET j == Min(Positions(fs, file))
         IN  [fs EXCEPT ![j].tags = Append(@, "%doc")]
    ELSE Append(fs, FileEntry(file, <<"%doc">>, "None"))

WithinFileBounds(fs) ==
    /\ Len(fs) <= MaxFiles
    /\ \A j \in 1..Len(fs) : Len(fs[j].tags) <= MaxDirectives

\* section.mark_doc(file)
MarkDoc(i, file) ==
    /\ WithinFileBounds(mark_doc(FilesOf(i), file))
    /\ files' = mark_doc(FilesOf(i), file)
    /\ last' = [op |-> "mark_doc", sec |-> i, key |-> file, val |-> NoVal,
                res |-> "ok"]
    /\ out' = <<>>
    /\ UNCHANGED <<spec, subpackages, changelogs, assigned>>

\* section.files.append(entry)
AppendFile(i, entry) ==
    /\ Len(FilesOf(i)) < MaxFiles
    /\ files' = Append(FilesOf(i), entry)
    /\ last' = [op |-> "append_file", sec |-> i, key |-> entry.path,
                val |-> NoVal, res |-> "ok"]
    /\ out' = <<>>
    /\ UNCHANGED <<spec, subpackages, changelogs, assigned>>

\* spec.subpackages.append(Subpackage())
AddSubpackage ==
    /\ Len(subpackages) < MaxSubpackages
    /\ subpackages' = Append(subpackages, InitTags)
    /\ last' = [op |-> "add_subpackage", sec |-> Len(subpackages) + 1,
                key |-> "", val |-> NoVal, res |-> "ok"]
    /\ out' = <<>>
    /\ UNCHANGED <<spec, files, changelogs, assigned>>

NextFiles ==
    \/ AddSubpackage
    \/ \E i \in Sections, entry \in FileInputs : AppendFile(i, entry)
    \/ \E i \in Sections, file \in Paths : MarkDoc(i, file)

SpecFiles == Init /\ [][NextFiles]_vars

(***************************************************************************)
(* Rendering.  The write methods read self.tag_keywords, self.tags,        *)
(* self._single_value_tags, self.script_keywords and self.scripts and call *)
(* self._files_remove_duplicity, none of which spec.py declares; they are  *)
(* taken from the specification: the canonical tag order, the section's    *)
(* own tag values, the fixed script order with the %package position, and  *)
(* the section's own scripts under their section names.                    *)
(***************************************************************************)
tag_keywords ==
    <<"Name", "Version", "Release", "Summary", "Group", "License", "URL",
      "Source", "Patch", "BuildArch", "BuildRoot", "Obsoletes", "Conflicts",
      "Vendor", "Packager", "BuildRequires", "Requires", "Provides">>

_single_value_tags ==
    {"Name", "Version", "Release", "Summary", "Group", "License", "URL",
     "BuildArch", "BuildRoot", "Vendor", "Packager", "description"}

script_keywords ==
    <<"%package">> \o [j \in 1..Len(_scripts) |-> "%" \o _scripts[j]]

tags(m) ==
    [k \in {tag_keywords[j] : j \in 1..Len(tag_keywords)} \cap DOMAIN m |-> m[k]]

ScriptKey ==
    [k \in {"%" \o _scripts[j] : j \in 1..Len(_scripts)} |->
        _scripts[CHOOSE j \in 1..Len(_scripts) : "%" \o _scripts[j] = k]]

scripts(m) == [k \in DOMAIN ScriptKey |-> m[ScriptKey[k]]]

\* One print call: kind and pkg say which statement printed it and for which
\* section, tag is the keyword it is printed for, val the value formatted
\* into it, text the characters written (without the final newline).
Item(kind, pkg, tag, val, text) ==
    [kind |-> kind, pkg |-> pkg, tag |-> tag, val |-> val, text |-> text]

\* The loop over the elements of a list-valued tag, lines 106-114.
RECURSIVE ListLines(_, _, _, _)
ListLines(tag, q, pkg, patch_index) ==
    IF q = <<>> THEN <<>>
    ELSE IF pkg = 0 /\ tag = "Patch"
    THEN <<Item("tag", pkg, tag, q[1],
                tag \o ToString(patch_index) \o ": " \o q[1])>>
         \o ListLines(tag, Tail(q), pkg, patch_index + 1)
    ELSE <<Item("tag", pkg, tag, q[1], tag \o ": " \o q[1])>>
         \o ListLines(tag, Tail(q), pkg, patch_index)

\* Subpackage._write_tags from the k-th keyword on, m being self.tags;
\* pkg = 0 is the test type(self) is Spec.  A list under a single-value tag ends the method
\* (return -1) with what was printed so far.
RECURSIVE WriteTagsFrom(_, _, _, _)
WriteTagsFrom(m, pkg, k, patch_index) ==
    IF k > Len(tag_keywords) THEN <<>>
    ELSE LET tag == tag_keywords[k] IN
      IF tag \notin DOMAIN m
      THEN WriteTagsFrom(m, pkg, k + 1, patch_index)
      ELSE LET tag_value == m[tag] IN
        IF tag_value.kind = "list"
        THEN IF tag \in _single_value_tags
             THEN <<>>
             ELSE ListLines(tag, tag_value.l, pkg, patch_index)
                  \o WriteTagsFrom(m, pkg, k + 1,
                        IF pkg = 0 /\ tag = "Patch"
                        THEN patch_index + Len(tag_value.l)
                        ELSE patch_index)
        ELSE IF pkg # 0 /\ tag = "Name"
        THEN <<Item("package", pkg, tag, StrOf(tag_value),
                    "\n%package " \o StrOf(tag_value))>>
             \o WriteTagsFrom(m, pkg, k + 1, patch_index)
        ELSE <<Item("tag", pkg, tag, StrOf(tag_value),
                    tag \o ": " \o StrOf(tag_value))>>
             \o WriteTagsFrom(m, pkg, k + 1, patch_index)

_write_tags(m, pkg) == WriteTagsFrom(tags(m), pkg, 1, 1)

\* Subpackage._write_scripts, sc being self.scripts and name
\* self.tags['Name']: every script present is printed under the header
\* "<script> <Name>".
RECURSIVE SubScriptsFrom(_, _, _, _)
SubScriptsFrom(sc, name, pkg, k) ==
    IF k > Len(script_keywords) THEN <<>>
    ELSE LET script == script_keywords[k] IN
      IF script \in DOMAIN sc
      THEN <<Item("script", pkg, script, StrOf(sc[script]),
                  "\n" \o script \o " " \o name \o "\n" \o StrOf(sc[script]))>>
           \o SubScriptsFrom(sc, name, pkg, k + 1)
      ELSE SubScriptsFrom(sc, name, pkg, k + 1)

\* Subpackage.write
SubWrite(m, pkg) ==
    _write_tags(m, pkg)
    \o SubScriptsFrom(scripts(m), StrOf(tags(m)["Name"]), pkg, 1)

RECURSIVE AllSubWrites(_)
AllSubWrites(k) ==
    IF k > Len(subpackages) THEN <<>>
    ELSE SubWrite(subpackages[k], k) \o AllSubWrites(k + 1)

\* Spec._write_scripts: at "%package" every subpackage is written.
RECURSIVE SpecScriptsFrom(_, _)
SpecScriptsFrom(sc, k) ==
    IF k > Len(script_keywords) THEN <<>>
    ELSE LET script == script_keywords[k] IN
      (IF script = "%package" THEN AllSubWrites(1) ELSE <<>>)
      \o (IF script \in DOMAIN sc
          THEN <<Item("script", 0, script, StrOf(sc[script]),
                      "\n" \o script \o "\n" \o StrOf(sc[script]))>>
          ELSE <<>>)
      \o SpecScriptsFrom(sc, k + 1)

_write_scripts(m, pkg) ==
    IF pkg = 0 THEN SpecScriptsFrom(scripts(m), 1)
    ELSE SubScriptsFrom(scripts(m), StrOf(tags(m)["Name"]), pkg, 1)

\* _files_remove_duplicity: one entry per path, later tags merged into the
\* first entry of the path.
RECURSIVE MergeTags(_, _)
MergeTags(have, more) ==
    IF more = <<>> THEN have
    ELSE IF \E j \in 1..Len(have) : have[j] = more[1]
    THEN MergeTags(have, Tail(more))
    ELSE MergeTags(Append(have, more[1]), Tail(more))

RECURSIVE _files_remove_duplicity(_)
_files_remove_duplicity(fs) ==
    IF fs = <<>> THEN <<>>
    ELSE LET head == _files_remove_duplicity(SubSeq(fs, 1, Len(fs) - 1))
             f == fs[Len(fs)]
         IN  IF Positions(head, f.path) = {}
             THEN Append(head, f)
             ELSE [head EXCEPT ![Min(Positions(head, f.path))].tags =
                                   MergeTags(@, f.tags)]

RECURSIVE JoinTags(_)
JoinTags(q) == IF q = <<>> THEN "" ELSE q[1] \o " " \o JoinTags(Tail(q))

\* The lines printed for the entries, lines 144-150 and 229-235.
FileLines(fs, pkg) ==
    [j \in 1..Len(fs) |->
        Item("file", pkg, fs[j].path, fs[j].path,
             (IF fs[j].attr # "None" THEN "%attr" \o fs[j].attr \o " " ELSE "")
             \o JoinTags(fs[j].tags) \o fs[j].path)]

\* Subpackage._write_files and Spec._write_files.  Nothing is printed for an
\* empty list.  Otherwise self.files = ... goes through __setattr__, which
\* raises because "files" is no key of the mapping, before anything is
\* printed.  No translation is registered, so the suffixes are empty.
_write_files(m, pkg) ==
    IF FilesOf(pkg) = <<>> THEN [res |-> "ok", out |-> <<>>]
    ELSE LET deduped == _files_remove_duplicity(FilesOf(pkg))
             r == __setattr__(m, "files", Lst(<<>>))
         IN  IF r.res # "ok" THEN [res |-> r.res, out |-> <<>>]
             ELSE [res |-> "ok",
                   out |-> <<Item("files", pkg, "%files", "",
                                  IF pkg = 0 THEN "\n%files "
                                  ELSE "\n%files " \o StrOf(tags(m)["Name"])
                                       \o " ")>>
                           \o FileLines(deduped, pkg)]

(***************************************************************************)
(* Changelog entries.  date carries the fields the code reads: year,       *)
(* month (1..12) and the value of weekday() (0..6).                        *)
(***************************************************************************)
_weekdays == <<"Mon", "Tue", "Wed", "Thu", "Fri", "Sat", "Sun">>

_months ==
    <<"Jan", "Feb", "Mar", "Apr", "May", "Jun", "Jul", "Aug", "Sep", "Oct",
      "Nov", "Dec">>

ChangelogEntry(wd, mon, msg) ==
    [weekday |-> wd, month |-> mon, year |-> 2024, author |-> "A Dev",
     email |-> "a@example.com", message |-> msg]

ChangelogInputs ==
    {ChangelogEntry(0, 1, <<"Initial release">>),
     ChangelogEntry(6, 12, <<"Fix", "More">>)}

RECURSIVE MessageLines(_)
MessageLines(q) ==
    IF q = <<>> THEN "" ELSE "- " \o q[1] \o "\n" \o MessageLines(Tail(q))

\* Changelog.__str__.  Python lists are indexed from 0, so _months[month]
\* is the element after the month's own and month 12 is out of range.
ChangelogStr(c) ==
    IF c.month + 1 > Len(_months)
    THEN [res |-> "IndexError", text |-> ""]
    ELSE [res |-> "ok",
          text |-> "* " \o _weekdays[c.weekday + 1] \o " "
                   \o _months[c.month + 1] \o " " \o ToString(c.year) \o " "
                   \o c.author \o " <" \o c.email \o ">\n"
                   \o MessageLines(c.message)]

RECURSIVE ChangelogEntriesFrom(_)
ChangelogEntriesFrom(k) ==
    IF k > Len(changelogs) THEN [res |-> "ok", out |-> <<>>]
    ELSE LET s == ChangelogStr(changelogs[k]) IN
      IF s.res # "ok" THEN [res |-> s.res, out |-> <<>>]
      ELSE LET rest == ChangelogEntriesFrom(k + 1)
           IN  [res |-> rest.res,
                out |-> <<Item("entry", 0, "%changelog", s.text,
                               s.text \o "\n")>> \o rest.out]

\* Spec._write_changelog: the header, then every entry.
_write_changelog ==
    LET e == ChangelogEntriesFrom(1)
    IN  [res |-> e.res,
         out |-> <<Item("changelog", 0, "%changelog", "", "\n%changelog")>>
                 \o e.out]

RECURSIVE SubFilesFrom(_)
SubFilesFrom(k) ==
    IF k > Len(subpackages) THEN [res |-> "ok", out |-> <<>>]
    ELSE LET f == _write_files(subpackages[k], k) IN
      IF f.res # "ok" THEN f
      ELSE LET rest == SubFilesFrom(k + 1)
           IN  [res |-> rest.res, out |-> f.out \o rest.out]

\* Spec.write: tags, scripts (with the subpackages), the root's files, the
\* subpackages' files, the changelog; an exception ends it there.
write ==
    LET head == _write_tags(spec, 0) \o _write_scripts(spec, 0)
        f == _write_files(spec, 0)
        sf == SubFilesFrom(1)
        c == _write_changelog
    IN  IF f.res # "ok" THEN [res |-> f.res, out |-> head]
        ELSE IF sf.res # "ok"
        THEN [res |-> sf.res, out |-> head \o f.out \o sf.out]
        ELSE [res |-> c.res, out |-> head \o f.out \o sf.out \o c.out]

Call(op, i, r) ==
    /\ out' = r.out
    /\ last' = [op |-> op, sec |-> i, key |-> "", val |-> NoVal, res |-> r.res]
    /\ UNCHANGED <<spec, subpackages, files, changelogs, assigned>>

\* section._write_tags(out)
WriteTags(i) ==
    Call("write_tags", i, [res |-> "ok", out |-> _write_tags(Sect(i), i)])

\* section._write_scripts(out)
WriteScripts(i) ==
    Call("write_scripts", i, [res |-> "ok", out |-> _write_scripts(Sect(i), i)])

\* section._write_files(out)
WriteFiles(i) == Call("write_files", i, _write_files(Sect(i), i))

\* spec._write_changelog(out)
WriteChangelog == Call("write_changelog", 0, _write_changelog)

\* spec.write(out)
Write == Call("write", 0, write)

\* spec.changelogs.append(Spec.Changelog(...))
AddChangelog(c) ==
    /\ Len(changelogs) < MaxChangelogs
    /\ changelogs' = Append(changelogs, c)
    /\ last' = [op |-> "add_changelog", sec |-> 0, key |-> "", val |-> NoVal,
                res |-> "ok"]
    /\ out' = <<>>
    /\ UNCHANGED <<spec, subpackages, files, assigned>>

\* Inputs of the assignments made before rendering.
WriteKeys == {"Name", "Summary", "Patch"}

WriteValues == {Str("a"), Lst(<<"a", "b">>)}

NextWrite ==
    \/ \E i \in Sections, key \in WriteKeys, value \in WriteValues :
          SetAttr(i, key, value)
    \/ AddSubpackage
    \/ \E i \in Sections : MarkDoc(i, "/a")
    \/ \E c \in ChangelogInputs : AddChangelog(c)
    \/ \E i \in Sections : WriteTags(i)
    \/ \E i \in Sections : WriteScripts(i)
    \/ \E i \in Sections : WriteFiles(i)
    \/ WriteChangelog
    \/ Write

SpecWrite == Init /\ [][NextWrite]_vars

\* Inputs of the changelog operations: every month, every value of
\* weekday(), one and two message lines.
ChangelogDates ==
    {ChangelogEntry(wd, mon, msg) :
        wd \in 0..6, mon \in 1..12,
        msg \in {<<"Initial release">>, <<"Fix", "More">>}}

\* str(spec.changelogs[k])
ChangelogToStr(k) ==
    LET s == ChangelogStr(changelogs[k])
    IN  /\ last' = [op |-> "str_changelog", sec |-> k, key |-> "",
                    val |-> IF s.res = "ok" THEN Str(s.text) ELSE NoVal,
                    res |-> s.res]
        /\ out' = <<>>
        /\ UNCHANGED <<spec, subpackages, files, changelogs, assigned>>

NextChangelog ==
    \/ \E c \in ChangelogDates : AddChangelog(c)
    \/ \E k \in 1..Len(changelogs) : ChangelogToStr(k)
    \/ WriteChangelog

SpecChangelog == Init /\ [][NextChangelog]_vars

Next == NextAttr \/ NextFiles \/ NextWrite \/ NextChangelog

Spec == Init /\ [][Next]_vars

(***************************************************************************)
(* Properties.                                                             *)
(***************************************************************************)
SingleValueTagNames ==
    {"Name", "Version", "Release", "Summary", "Group", "License", "URL",
     "BuildArch", "BuildRoot"}

ListValueTagNames == {"Requires", "BuildRequires", "Provides"}

\* C1: assigning a list to a single-value tag (Name, Version, Release,
\* Summary, Group, License, URL, BuildArch, BuildRoot) or a plain string to a
\* list-value tag (Requires, BuildRequires, Provides) raises a type error at
\* assignment time.
C1_WrongShapeRejected ==
    (/\ last.op = "setattr"
     /\ \/ last.key \in SingleValueTagNames /\ last.val.kind = "list"
        \/ last.key \in ListValueTagNames /\ last.val.kind = "str")
    => last.res = "TypeError"

\* C2: an attribute assignment that raises (type error or unknown-attribute
\* error) leaves the mapping of every section exactly as it was.
C2_FailedAssignmentKeepsMapping ==
    [][(last'.op = "setattr" /\ last'.res # "ok")
       => (spec' = spec /\ subpackages' = subpackages)]_vars

\* C2 witness: a list assigned to Name has been refused with a type error.
C2_Witness ==
    /\ last.op = "setattr"
    /\ last.key = "Name"
    /\ last.val.kind = "list"
    /\ last.res = "TypeError"
    /\ spec["Name"] # last.val

NoRepeatedPath(fs) ==
    \A j, k \in 1..Len(fs) : fs[j].path = fs[k].path => j = k

\* C4: on a file list with no repeated path, mark_doc leaves no repeated
\* path; on a path already present it keeps the entry's directives and
\* explicit attribute and adds %doc to it, changing no other entry; on an
\* absent path it appends exactly the entry (path, [%doc], no attribute).
C4_MarkDocMerges ==
    [][(last'.op = "mark_doc" /\ NoRepeatedPath(files)) =>
        /\ NoRepeatedPath(files')
        /\ Positions(files, last'.key) # {} =>
              /\ Len(files') = Len(files)
              /\ \A j \in 1..Len(files) :
                    IF files[j].path = last'.key
                    THEN /\ files'[j].path = files[j].path
                         /\ files'[j].attr = files[j].attr
                         /\ files'[j].tags = Append(files[j].tags, "%doc")
                    ELSE files'[j] = files[j]
        /\ Positions(files, last'.key) = {} =>
              files' = Append(files, FileEntry(last'.key, <<"%doc">>, "None"))
      ]_vars

\* C4 witness: mark_doc has acted on a path present with %config, and the
\* list holds one entry for it carrying %config, %doc and its attribute.
C4_Witness ==
    /\ last.op = "mark_doc"
    /\ last.key = "/a"
    /\ NoRepeatedPath(files)
    /\ \E j \in 1..Len(files) :
          files[j] = FileEntry("/a", <<"%config", "%doc">>, "(644)")

Count(q, x) == Cardinality({j \in 1..Len(q) : q[j] = x})

\* C5: after any sequence of mark_doc calls every file entry's directives
\* contain %doc at most once.
C5_DocAtMostOnce ==
    \A j \in 1..Len(files) : Count(files[j].tags, "%doc") <= 1

\* C6: a mark_doc call or a file append on one section leaves the file list
\* of every other section unchanged, and a freshly constructed section has an
\* empty file list.
C6_OwnFileList ==
    [][/\ last'.op \in {"mark_doc", "append_file"} =>
             \A t \in Sections \ {last'.sec} : FilesOf(t)' = FilesOf(t)
       /\ last'.op = "add_subpackage" => FilesOf(last'.sec)' = <<>>
      ]_vars

\* The position of a printed item in the document order of the claim: root
\* tags, root scripts and subpackage writes, root files, subpackage files,
\* changelog.
Phase(it) ==
    IF it.kind \in {"changelog", "entry"} THEN 5
    ELSE IF it.kind \in {"files", "file"} THEN (IF it.pkg = 0 THEN 3 ELSE 4)
    ELSE IF it.pkg = 0 /\ it.kind = "tag" THEN 1
    ELSE 2

C8_EmptySuppressesHeader ==
    /\ (last.op \in {"write", "write_changelog"} /\ changelogs = <<>>)
          => \A j \in 1..Len(out) : out[j].kind # "changelog"
    /\ (last.op = "write_files" /\ FilesOf(last.sec) = <<>>)
          => \A j \in 1..Len(out) : out[j].kind # "files"

PatchTexts ==
    LET lines == SelectSeq(out, LAMBDA it : it.kind = "tag" /\ it.tag = "Patch")
    IN  [j \in 1..Len(lines) |-> lines[j].text]

WeekdayAbbr == <<"Mon", "Tue", "Wed", "Thu", "Fri", "Sat", "Sun">>

MonthAbbr ==
    <<"Jan", "Feb", "Mar", "Apr", "May", "Jun", "Jul", "Aug", "Sep", "Oct",
      "Nov", "Dec">>

RECURSIVE DashLines(_)
DashLines(q) ==
    IF q = <<>> THEN "" ELSE "- " \o q[1] \o "\n" \o DashLines(Tail(q))

\* C11: for every date (month 1..12, every weekday) a changelog entry
\* renders without failing as the header
\* "* <Weekday> <Month> <Year> <Author> <<Email>>", the weekday and month
\* abbreviations being those of the entry's own date (weekday() 0 is Mon,
\* month 1 is Jan), followed by one "- <line>" per message line in order.
C11_ChangelogEntryText ==
    last.op = "str_changelog" =>
        LET c == changelogs[last.sec]
        IN  /\ last.res = "ok"
            /\ last.val.s =
                  "* " \o WeekdayAbbr[c.weekday + 1] \o " " \o MonthAbbr[c.month]
                  \o " " \o ToString(c.year) \o " " \o c.author
                  \o " <" \o c.email \o ">\n" \o DashLines(c.message)

====
